---- MODULE Spec2Model ----
(***************************************************************************)
(* Model of entsoe_client: the query-decomposition decorators of utils.py  *)
(* (yield_date_range, split_query, documents_limited, paginated,           *)
(* inclusive) and the two decorated queries of client.py.                  *)
(*                                                                         *)
(* Time is an integer number of ticks.  In the calendar specifications     *)
(* (SpecRange, Spec) a day is TicksPerDay ticks and tick 0 is              *)
(* EpochYear-01-01T00:00; in SpecPag a tick is one microsecond, the        *)
(* resolution of datetime.                                                 *)
(***************************************************************************)
EXTENDS Integers, Sequences, FiniteSets, TLC

VARIABLES
    start,      \* caller's interval start (keyword argument `start`)
    end,        \* caller's interval end (keyword argument `end`)
    freq,       \* split duration of yield_date_range / split_query
    t0,         \* yield_date_range: `_t0`, start of the next block
    blocks,     \* blocks yielded so far, <<_t0, _t1>> each
    pc,         \* control location of the running coroutine / generator
    query,      \* which decorated query runs ("day_ahead", "balancing")
    kwOffset,   \* whether the caller passed the keyword `_offset`
    n,          \* documents_limited: page size
    offset,     \* documents_wrapper: loop variable `offset`
    pframes,    \* documents_wrapper: `frames`
    frames,     \* split_query wrapper: `frames`
    requests,   \* requests handed to the wrapped call / transport, in order
    outcome,    \* result of the call: [kind, value]
    server,     \* behaviour of the (synthetic) server
    voids,      \* number of accepted requests the server answered without data
    rejects,    \* number of requests the server rejected with PaginationError
    stack,      \* paginated: the active pagination_wrapper calls
    arg,        \* argument of the function under study (response classifier,
                \* inclusive, decoder, parse_freq)
    out         \* what that function has produced so far

vars == <<start, end, freq, t0, blocks, pc, query, kwOffset, n, offset,
          pframes, frames, requests, outcome, server, voids, rejects, stack, arg, out>>

----------------------------------------------------------------------------
(* Bounds of the model.                                                    *)

TicksPerDay == 2          \* resolution of the calendar specifications
YearSpan == 5             \* calendar years covered after EpochYear
MaxYield == 6             \* blocks a consumer pulls from yield_date_range
MaxDepth == 6             \* nested pagination_wrapper calls the interpreter allows
MaxWidth == 3             \* widest interval tried against an arbitrary server
MaxW == 3                 \* largest limit W of the width-limiting server
MaxVoid == 1              \* accepted requests a server answers without data
MaxReject == 3            \* requests an arbitrary server rejects as too large
MaxPages == 2             \* pages of documents the server holds for one block
MaxLen == 3               \* characters of a duration string given to parse_freq

----------------------------------------------------------------------------
(* Calendar arithmetic: datetime + relativedelta.                          *)

EpochYear == 2023

Years == (EpochYear - 1) .. (EpochYear + YearSpan)

Min(a, b) == IF a <= b THEN a ELSE b

IsLeap(y) == (y % 4 = 0 /\ y % 100 # 0) \/ y % 400 = 0

DaysInMonth(y, m) ==
    IF m = 2 THEN (IF IsLeap(y) THEN 29 ELSE 28)
    ELSE IF m \in {4, 6, 9, 11} THEN 30 ELSE 31

DaysBeforeYear(y) ==
    365 * (y - EpochYear) + Cardinality({z \in EpochYear .. (y - 1) : IsLeap(z)})

RECURSIVE DaysBeforeMonth(_, _)
DaysBeforeMonth(y, m) ==
    IF m = 1 THEN 0 ELSE DaysBeforeMonth(y, m - 1) + DaysInMonth(y, m - 1)

\* day number (days since the epoch) of the calendar date y-m-d
Ordinal(y, m, d) == DaysBeforeYear(y) + DaysBeforeMonth(y, m) + (d - 1)

\* the instant y-m-d 00:00, in ticks
Date(y, m, d) == Ordinal(y, m, d) * TicksPerDay

YearOf(day) ==
    CHOOSE y \in Years : DaysBeforeYear(y) <= day /\ day < DaysBeforeYear(y + 1)

MonthOf(day) ==
    LET y == YearOf(day)
        r == day - DaysBeforeYear(y)
    IN  CHOOSE m \in 1..12 :
            DaysBeforeMonth(y, m) <= r /\ r < DaysBeforeMonth(y, m) + DaysInMonth(y, m)

DayOf(day) ==
    LET y == YearOf(day)
    IN  day - DaysBeforeYear(y) - DaysBeforeMonth(y, MonthOf(day)) + 1

\* a relativedelta: years, months, days and a sub-day part in ticks
Dur(y, m, d, t) == [years |-> y, months |-> m, days |-> d, ticks |-> t]

IsZeroDur(f) == f.years = 0 /\ f.months = 0 /\ f.days = 0 /\ f.ticks = 0

\* datetime + relativedelta: years and months first, the day clipped to the
\* target month's length, then the days and the time part; tpd is the
\* number of ticks in a day
AddDeltaAt(tpd, t, f) ==
    LET day  == t \div tpd
        tod  == t % tpd
        y    == YearOf(day)
        m    == MonthOf(day)
        d    == DayOf(day)
        mm   == (y * 12 + (m - 1)) + (f.years * 12 + f.months)
        y2   == mm \div 12
        m2   == (mm % 12) + 1
        d2   == Min(d, DaysInMonth(y2, m2))
    IN  (Ordinal(y2, m2, d2) + f.days) * tpd + tod + f.ticks

\* the same with TicksPerDay ticks in a day
AddDelta(t, f) == AddDeltaAt(TicksPerDay, t, f)

NegDur(f) == Dur(0 - f.years, 0 - f.months, 0 - f.days, 0 - f.ticks)

\* datetime - relativedelta: the negated relativedelta added
SubDelta(t, f) == AddDelta(t, NegDur(f))

----------------------------------------------------------------------------
(* yield_date_range                                                        *)

BlockEnd_NoClamp(b0, f, e) == AddDelta(b0, f)

\* `_t1 = min(_t0 + freq, end)`
BlockEnd(b0, f, e) == Min(AddDelta(b0, f), e)

----------------------------------------------------------------------------
(* Tables.  A frame value is what a wrapped call returns: None, or a table *)
(* whose rows are tagged by the request that produced them.                *)

None == [isNone |-> TRUE, rows |-> <<>>]

Frame(rows) == [isNone |-> FALSE, rows |-> rows]

RECURSIVE FlatRows(_)
FlatRows(items) ==
    IF items = <<>> THEN <<>> ELSE items[1].rows \o FlatRows(Tail(items))

\* nw.concat(items, how="diagonal"): an empty list of items is a ValueError
\* ("No items to concatenate"), an item that is not a table a TypeError;
\* otherwise the rows of the items in order
Concat(items) ==
    IF items = <<>> THEN [error |-> "ValueError", frame |-> None]
    ELSE IF \E i \in 1..Len(items) : items[i].isNone
         THEN [error |-> "TypeError", frame |-> None]
         ELSE [error |-> "", frame |-> Frame(FlatRows(items))]

NoServer == [kind |-> "none", W |-> 0]

Idle == [kind |-> "none", error |-> "", frame |-> None]

Returned(v) == [kind |-> "returned", error |-> "", frame |-> v]

Raised(err) == [kind |-> "raised", error |-> err, frame |-> None]

----------------------------------------------------------------------------
(* yield_date_range, continued                                             *)

RangeStarts == {Date(2023, 1, 1), Date(2024, 2, 29), Date(2024, 1, 31) + 1}

RangeWidths == {0 - 3, 0 - 1, 0, 1, 3, 2 * TicksPerDay, 31 * TicksPerDay,
                366 * TicksPerDay, 732 * TicksPerDay}

RangeFreqs == {Dur(1, 0, 0, 0), Dur(0, 1, 0, 0), Dur(0, 0, 1, 0), Dur(0, 0, 0, 1),
               Dur(0, 1, 1, 0), Dur(0, 0, 0, 0)}

RangeUnused ==
    /\ query = "none" /\ kwOffset = FALSE /\ n = 0 /\ offset = 0
    /\ pframes = <<>> /\ frames = <<>> /\ requests = <<>>
    /\ outcome = Idle /\ server = NoServer /\ voids = 0 /\ rejects = 0
    /\ stack = <<>> /\ arg = <<>> /\ out = <<>>

InitRange ==
    /\ start \in RangeStarts
    /\ end \in {start + w : w \in RangeWidths}
    /\ freq \in RangeFreqs
    /\ t0 = start
    /\ blocks = <<>>
    /\ pc = "loop"
    /\ RangeUnused

\* one iteration of `while _t0 < end`: the generator yields <<_t0, _t1>>
YieldBlock ==
    /\ pc = "loop"
    /\ t0 < end
    /\ Len(blocks) < MaxYield
    /\ LET t1 == BlockEnd(t0, freq, end)
       IN  /\ blocks' = Append(blocks, <<t0, t1>>)
           /\ t0' = t1
    /\ UNCHANGED <<start, end, freq, pc, query, kwOffset, n, offset, pframes,
                   frames, requests, outcome, server, voids, rejects, stack, arg, out>>

\* the loop condition fails: the generator is exhausted
RangeExhausted ==
    /\ pc = "loop"
    /\ ~(t0 < end)
    /\ pc' = "done"
    /\ UNCHANGED <<start, end, freq, t0, blocks, query, kwOffset, n, offset,
                   pframes, frames, requests, outcome, server, voids, rejects, stack, arg, out>>

NextRange == YieldBlock \/ RangeExhausted

SpecRange == InitRange /\ [][NextRange]_vars

----------------------------------------------------------------------------
(* C1: for start < end and a non-zero split duration the blocks of         *)
(* yield_date_range are consecutive non-empty half-open intervals: the     *)
(* first starts at start, each starts where the previous one ended, none   *)
(* is wider than the duration, none passes end, and when the generator is  *)
(* exhausted the last one ends exactly at end.  [2023-01-01, 2025-01-02)   *)
(* split at 1y gives the blocks ending 2024-01-01, 2025-01-01, 2025-01-02. *)

C1_BlocksTileInterval ==
    (start < end /\ ~IsZeroDur(freq)) =>
        /\ (blocks # <<>> => blocks[1][1] = start)
        /\ \A i \in 1..Len(blocks) :
              /\ blocks[i][1] < blocks[i][2]
              /\ blocks[i][2] <= AddDelta(blocks[i][1], freq)
              /\ blocks[i][2] <= end
              /\ (i > 1 => blocks[i][1] = blocks[i - 1][2])
        /\ (pc = "done" => blocks # <<>> /\ blocks[Len(blocks)][2] = end)
        /\ (/\ pc = "done"
            /\ start = Date(2023, 1, 1)
            /\ end = Date(2025, 1, 2)
            /\ freq = Dur(1, 0, 0, 0))
           => blocks = << <<Date(2023, 1, 1), Date(2024, 1, 1)>>,
                          <<Date(2024, 1, 1), Date(2025, 1, 1)>>,
                          <<Date(2025, 1, 1), Date(2025, 1, 2)>> >>

C1_Witness ==
    /\ pc = "done"
    /\ start = Date(2023, 1, 1)
    /\ end = Date(2025, 1, 2)
    /\ freq = Dur(1, 0, 0, 0)
    /\ Len(blocks) = 3

----------------------------------------------------------------------------
(* paginated: pagination_wrapper around a wrapped call `func`.  Ticks are  *)
(* microseconds.  A server of kind "any" answers each request as it likes  *)
(* (within MaxVoid and MaxReject); one of kind "reject" answers every      *)
(* request with PaginationError; one of kind "limit" rejects with          *)
(* PaginationError exactly the requests wider than server.W and answers    *)
(* every other request with a table.                                       *)

HalfEven_Whole(w) == w

\* timedelta / 2: the quotient rounded to the nearest microsecond, ties to even
HalfEven(w) ==
    LET q == w \div 2
        r == w % 2
    IN  IF r = 1 /\ q % 2 = 1 THEN q + 1 ELSE q

\* `pivot = start + (end - start) / 2`
Pivot(s, e) == s + HalfEven(e - s)

Responses == {"ok", "void", "PaginationError", "NoMatchingDataError",
              "InvalidBusinessParameterError", "InvalidPSRTypeError"}

\* the answers the server may give to a request for [s, e) at offset o:
\* "ok" is a response with data, "void" one whose decoded data is empty
\* (the query returns None), the others are the errors raise_response_error
\* raises.  A server of kind "paged" has no document at offset server.W or
\* beyond.
Answers(s, e, o) ==
    IF server.kind = "limit"
    THEN (IF e - s > server.W THEN {"PaginationError"} ELSE {"ok"})
    ELSE IF server.kind = "reject" THEN {"PaginationError"}
    ELSE IF server.kind = "paged" /\ o >= server.W THEN {"NoMatchingDataError"}
    ELSE {r \in Responses : /\ r = "void" => voids < MaxVoid
                            /\ r = "PaginationError" => rejects < MaxReject}

Call(s, e) == [s |-> s, e |-> e, phase |-> "call", f1 |-> None]

Pop(stk) == SubSeq(stk, 1, Len(stk) - 1)

SetTop(stk, fr) == [stk EXCEPT ![Len(stk)] = fr]

\* the value v returns into the calls of stk: a caller waiting for its first
\* half stores it and calls the second half; one waiting for its second half
\* merges both halves and returns in turn
RECURSIVE Unwind(_, _)
Unwind(stk, v) ==
    IF stk = <<>> THEN [stack |-> <<>>, outcome |-> Returned(v)]
    ELSE LET top == stk[Len(stk)]
         IN  IF top.phase = "first"
             THEN [stack |-> Append(SetTop(stk, [top EXCEPT !.phase = "second", !.f1 = v]),
                                    Call(Pivot(top.s, top.e), top.e)),
                   outcome |-> Idle]
             ELSE IF top.f1.isNone /\ v.isNone
                  THEN Unwind(Pop(stk), None)
                  ELSE LET c == Concat(<<top.f1, v>>)
                       IN  IF c.error # ""
                           THEN [stack |-> <<>>, outcome |-> Raised(c.error)]
                           ELSE Unwind(Pop(stk), c.frame)

PagUnused ==
    /\ freq = Dur(0, 0, 0, 0) /\ t0 = 0 /\ blocks = <<>>
    /\ query = "none" /\ kwOffset = FALSE /\ n = 0 /\ offset = 0
    /\ pframes = <<>> /\ frames = <<>> /\ requests = <<>>
    /\ arg = <<>> /\ out = <<>>

InitPag ==
    /\ start \in 0..1
    /\ \/ /\ server \in {[kind |-> "any", W |-> 0], [kind |-> "reject", W |-> 0]}
          /\ end \in start .. (start + MaxWidth)
       \/ /\ \E w \in 1..MaxW : server = [kind |-> "limit", W |-> w]
          /\ end \in {start + 10 * server.W} \cup (start .. (start + MaxWidth))
    /\ voids = 0
    /\ rejects = 0
    /\ stack = <<Call(start, end)>>
    /\ outcome = Idle
    /\ pc = "run"
    /\ PagUnused

PagDone(res) ==
    /\ UNCHANGED <<arg, out>>
    /\ stack' = res.stack
    /\ outcome' = res.outcome
    /\ pc' = IF res.stack = <<>> THEN "done" ELSE "run"

\* `frame = await func(start=start, end=end)` returns a table or None
PagAccepted ==
    /\ pc = "run" /\ stack # <<>>
    /\ LET top == stack[Len(stack)]
       IN  \E r \in Answers(top.s, top.e, 0) \cap {"ok", "void"} :
             /\ voids' = IF r = "void" THEN voids + 1 ELSE voids
             /\ PagDone(Unwind(Pop(stack),
                               IF r = "ok" THEN Frame(<< <<top.s, top.e>> >>) ELSE None))
    /\ UNCHANGED <<start, end, freq, t0, blocks, query, kwOffset, n, offset,
                   pframes, frames, requests, server, rejects>>

\* `except PaginationError`: the call computes the pivot and calls itself on
\* the first half; past the interpreter's recursion limit that call raises
PagBisect ==
    /\ pc = "run" /\ stack # <<>>
    /\ LET top == stack[Len(stack)]
       IN  /\ "PaginationError" \in Answers(top.s, top.e, 0)
           /\ rejects' = IF server.kind = "any" THEN rejects + 1 ELSE rejects
           /\ IF Len(stack) >= MaxDepth
              THEN PagDone([stack |-> <<>>, outcome |-> Raised("RecursionError")])
              ELSE PagDone([stack |-> Append(SetTop(stack, [top EXCEPT !.phase = "first"]),
                                             Call(top.s, Pivot(top.s, top.e))),
                            outcome |-> Idle])
    /\ UNCHANGED <<start, end, freq, t0, blocks, query, kwOffset, n, offset,
                   pframes, frames, requests, server, voids>>

\* any other exception of func leaves every pagination_wrapper call
PagRaise ==
    /\ pc = "run" /\ stack # <<>>
    /\ LET top == stack[Len(stack)]
       IN  \E r \in Answers(top.s, top.e, 0) \ {"ok", "void", "PaginationError"} :
             PagDone([stack |-> <<>>, outcome |-> Raised(r)])
    /\ UNCHANGED <<start, end, freq, t0, blocks, query, kwOffset, n, offset,
                   pframes, frames, requests, server, voids, rejects>>

NextPag == PagAccepted \/ PagBisect \/ PagRaise

SpecPag == InitPag /\ [][NextPag]_vars

----------------------------------------------------------------------------
(* C3: the bisection of paginated terminates for every interval and every  *)
(* server: each nested pagination_wrapper call works on a strictly         *)
(* narrower interval than the call that made it, and the recursion never   *)
(* runs into the interpreter's recursion limit.                            *)

C3_BisectionShrinksAndEnds ==
    /\ \A i \in 2..Len(stack) :
          stack[i].e - stack[i].s < stack[i - 1].e - stack[i - 1].s
    /\ outcome.error # "RecursionError"

(* C4: against a server that rejects exactly the requests wider than W, a  *)
(* call over an interval of width 10 W completes: it never raises, it      *)
(* nests at most five calls deep, and it returns a table whose rows are    *)
(* the accepted intervals, each non-empty and at most W wide, which        *)
(* together cover [start, end) in order without gap or overlap.            *)

RowsTile(rows, s, e, w) ==
    /\ rows # <<>>
    /\ rows[1][1] = s
    /\ rows[Len(rows)][2] = e
    /\ \A i \in 1..Len(rows) :
          /\ rows[i][1] < rows[i][2]
          /\ rows[i][2] - rows[i][1] <= w
          /\ (i > 1 => rows[i][1] = rows[i - 1][2])

C4_LimitServerCompletes ==
    (server.kind = "limit" /\ end - start = 10 * server.W) =>
        /\ outcome.kind # "raised"
        /\ Len(stack) <= 5
        /\ \A i \in 1..Len(stack) :
              \A j \in 1..Len(stack[i].f1.rows) :
                  stack[i].f1.rows[j][2] - stack[i].f1.rows[j][1] <= server.W
        /\ (pc = "done" =>
              /\ outcome.kind = "returned"
              /\ ~outcome.frame.isNone
              /\ RowsTile(outcome.frame.rows, start, end, server.W))

C4_Witness ==
    /\ server.kind = "limit"
    /\ end - start = 10 * server.W
    /\ pc = "done"
    /\ outcome.kind = "returned"
    /\ Len(outcome.frame.rows) >= 10

----------------------------------------------------------------------------
(* documents_limited(n): documents_wrapper around a wrapped call.          *)

OffsetBound == 4800

InOffsetRange_Inclusive(o, nn) == o <= OffsetBound + nn

\* `range(0, 4800 + n, n)`: whether the loop has an iteration at offset o
InOffsetRange(o, nn) == o < OffsetBound + nn

Inclusive_EndForward(closed, g, s, e) == <<s, AddDelta(e, g)>>

Inclusive_EdgesSwapped(closed, g, s, e) ==
    CASE closed = "both"    -> <<s, e>>
      [] closed = "left"    -> <<AddDelta(s, g), e>>
      [] closed = "right"   -> <<s, SubDelta(e, g)>>
      [] closed = "neither" -> <<AddDelta(s, g), SubDelta(e, g)>>

\* inclusive(granularity, closed): the <<_start, _end>> handed to the call
Inclusive(closed, g, s, e) ==
    CASE closed = "both"    -> <<s, e>>
      [] closed = "left"    -> <<s, SubDelta(e, g)>>
      [] closed = "right"   -> <<AddDelta(s, g), e>>
      [] closed = "neither" -> <<AddDelta(s, g), SubDelta(e, g)>>

\* one request handed to the transport, with the answer it got
Request(s, e, o, r) == [s |-> s, e |-> e, offset |-> o, answer |-> r]

AfterPage_AbsorbsAll(o, nn, pf, row, r) ==
    IF r \in {"ok", "void"} /\ InOffsetRange(o + nn, nn)
    THEN [at |-> "loop", offset |-> o + nn, error |-> "",
          pframes |-> IF r = "ok" THEN Append(pf, Frame(<<row>>)) ELSE pf]
    ELSE [at |-> "end", offset |-> o, error |-> "",
          pframes |-> IF r = "ok" THEN Append(pf, Frame(<<row>>)) ELSE pf]

\* documents_wrapper after the page at offset o was answered r: it goes on
\* with the next offset ("loop"), leaves the loop ("end"), or lets the
\* exception through ("raise")
AfterPage(o, nn, pf, row, r) ==
    IF r \in {"ok", "void"}
    THEN LET pf2 == IF r = "ok" THEN Append(pf, Frame(<<row>>)) ELSE pf
         IN  IF InOffsetRange(o + nn, nn)
             THEN [at |-> "loop", offset |-> o + nn, pframes |-> pf2, error |-> ""]
             ELSE [at |-> "end", offset |-> o, pframes |-> pf2, error |-> ""]
    ELSE IF r = "NoMatchingDataError"
         THEN [at |-> "end", offset |-> o, pframes |-> pf, error |-> ""]
         ELSE [at |-> "raise", offset |-> o, pframes |-> pf, error |-> r]

PageSizes == {100, 1600, 3500, 4800, 4801}

DocUnused ==
    /\ freq = Dur(0, 0, 0, 0) /\ t0 = 0 /\ blocks = <<>>
    /\ query = "none" /\ frames = <<>> /\ rejects = 0 /\ stack = <<>>
    /\ arg = <<>> /\ out = <<>>

InitDoc ==
    /\ n \in PageSizes
    /\ start = 0 /\ end = 2
    /\ kwOffset = TRUE
    /\ offset = 0
    /\ pframes = <<>>
    /\ requests = <<>>
    /\ outcome = Idle
    /\ server = [kind |-> "any", W |-> 0]
    /\ voids = 0
    /\ pc = "page"
    /\ DocUnused

\* one iteration of `for offset in range(0, 4800 + n, n)` of a
\* documents_wrapper called on its own; leaving the loop it concatenates
\* and returns
DocPage ==
    /\ pc = "page" /\ query = "none"
    /\ \E r \in Answers(start, end, offset) :
         LET a == AfterPage(offset, n, pframes, <<start, end, offset>>, r)
             c == Concat(a.pframes)
         IN  /\ requests' = Append(requests, Request(start, end, offset, r))
             /\ voids' = IF r = "void" THEN voids + 1 ELSE voids
             /\ offset' = a.offset
             /\ pframes' = a.pframes
             /\ pc' = IF a.at = "loop" THEN "page" ELSE "done"
             /\ outcome' = IF a.at = "loop" THEN Idle
                           ELSE IF a.at = "raise" THEN Raised(a.error)
                           ELSE IF c.error # "" THEN Raised(c.error)
                           ELSE Returned(c.frame)
    /\ UNCHANGED <<start, end, freq, t0, blocks, query, kwOffset, n, frames,
                   server, rejects, stack, arg, out>>

NextDoc == DocPage

SpecDoc == InitDoc /\ [][NextDoc]_vars

----------------------------------------------------------------------------
(* C9: within one documents_wrapper call the pages are requested at        *)
(* offsets 0, n, 2n, ... in this order, nothing is requested after a page  *)
(* that raised NoMatchingDataError, and no offset beyond the bound is      *)
(* attempted.                                                              *)

PagesInOrder ==
    \A i \in 1..Len(requests) :
        /\ requests[i].offset = (i - 1) * n
        /\ (i < Len(requests) => requests[i].answer \in {"ok", "void"})

\* as claimed: for every page size, no offset beyond 4800
C9_NoOffsetBeyond4800 ==
    /\ PagesInOrder
    /\ \A i \in 1..Len(requests) : requests[i].offset <= OffsetBound

\* as amended: every offset is below 4800 + n, and at most 4800 when the
\* page size divides 4800 (as the configured 100 does)
C9_OffsetsBelowBoundPlusPage ==
    /\ PagesInOrder
    /\ \A i \in 1..Len(requests) :
          /\ requests[i].offset < OffsetBound + n
          /\ (OffsetBound % n = 0 => requests[i].offset <= OffsetBound)

C9_Witness ==
    /\ pc = "done"
    /\ n = 100
    /\ Len(requests) = 49
    /\ requests[49].offset = OffsetBound
    /\ requests[49].answer = "NoMatchingDataError"

----------------------------------------------------------------------------
(* The decorated queries of Client:                                        *)
(*   query_day_ahead_prices = parse_inputs(split_query("1y")(              *)
(*       documents_limited(100)(inclusive("1d", "left")(f))))              *)
(*   query_activated_balancing_energy_prices = parse_inputs(               *)
(*       split_query("1y")(inclusive("1d", "left")(f)))                    *)
(* called with normalised arguments.  The server holds at most MaxPages    *)
(* pages of documents for a block.                                         *)

Queries == {"day_ahead", "balancing"}

\* @split_query("1y")
SplitFreq(q) == Dur(1, 0, 0, 0)

\* @documents_limited(100), on query_day_ahead_prices only
PageSize(q) == IF q = "day_ahead" THEN 100 ELSE 0

\* @inclusive("1d", "left")
Granularity(q) == Dur(0, 0, 1, 0)

Closed(q) == "left"

\* whether the callee below split_query accepts the caller's keywords:
\* documents_wrapper requires the keyword-only `_offset`, the undecorated
\* balancing query does not take it
KeywordsAccepted(q, kw) == IF q = "day_ahead" THEN kw ELSE ~kw

TopStarts == {Date(2023, 1, 1), Date(2024, 2, 29), Date(2024, 12, 31) + 1}

TopWidths == {0 - TicksPerDay, 0, 1, TicksPerDay, 2 * TicksPerDay,
              366 * TicksPerDay, 367 * TicksPerDay, 732 * TicksPerDay}

Init ==
    /\ query \in Queries
    /\ kwOffset \in BOOLEAN
    /\ start \in TopStarts
    /\ end \in {start + w : w \in TopWidths}
    /\ freq = SplitFreq(query)
    /\ n = PageSize(query)
    /\ t0 = start
    /\ blocks = <<>>
    /\ offset = 0
    /\ pframes = <<>>
    /\ frames = <<>>
    /\ requests = <<>>
    /\ outcome = Idle
    /\ server = [kind |-> "paged", W |-> MaxPages * PageSize("day_ahead")]
    /\ voids = 0
    /\ rejects = 0
    /\ stack = <<>>
    /\ arg = <<>>
    /\ out = <<>>
    /\ pc = "split"

\* the current block, and the window inclusive hands to the query for it
Block == blocks[Len(blocks)]

Window(b) == Inclusive(Closed(query), Granularity(query), b[1], b[2])

\* split_query.wrapper: the next block of yield_date_range, for the
\* day-ahead query: the call of documents_wrapper, which starts its loop
SplitBlockPaged ==
    /\ pc = "split" /\ query = "day_ahead"
    /\ t0 < end
    /\ LET t1 == BlockEnd(t0, freq, end)
       IN  /\ blocks' = Append(blocks, <<t0, t1>>)
           /\ t0' = t1
    /\ IF KeywordsAccepted(query, kwOffset)
       THEN /\ pc' = "page"
            /\ outcome' = outcome
       ELSE /\ pc' = "done"
            /\ outcome' = Raised("TypeError")
    /\ offset' = 0
    /\ pframes' = <<>>
    /\ UNCHANGED <<start, end, freq, query, kwOffset, n, frames, requests,
                   server, voids, rejects, stack, arg, out>>

\* documents_wrapper under split_query: one page; leaving the loop it
\* concatenates, and split_query.wrapper appends the block's table
SplitPage ==
    /\ pc = "page" /\ query = "day_ahead"
    /\ LET w == Window(Block)
       IN  \E r \in Answers(w[1], w[2], offset) :
             LET a == AfterPage(offset, n, pframes, <<w[1], w[2], offset>>, r)
                 c == Concat(a.pframes)
             IN  /\ requests' = Append(requests, Request(w[1], w[2], offset, r))
                 /\ voids' = IF r = "void" THEN voids + 1 ELSE voids
                 /\ offset' = a.offset
                 /\ pframes' = a.pframes
                 /\ IF a.at = "loop"
                    THEN UNCHANGED <<pc, outcome, frames>>
                    ELSE IF a.at = "raise"
                    THEN /\ pc' = "done"
                         /\ outcome' = Raised(a.error)
                         /\ frames' = frames
                    ELSE IF c.error # ""
                    THEN /\ pc' = "done"
                         /\ outcome' = Raised(c.error)
                         /\ frames' = frames
                    ELSE /\ pc' = "split"
                         /\ outcome' = outcome
                         /\ frames' = Append(frames, c.frame)
    /\ UNCHANGED <<start, end, freq, t0, blocks, query, kwOffset, n, server,
                   rejects, stack, arg, out>>

\* split_query.wrapper: the next block, for the balancing query: one request
SplitBlockDirect ==
    /\ pc = "split" /\ query = "balancing"
    /\ t0 < end
    /\ LET t1 == BlockEnd(t0, freq, end)
           w  == Window(<<t0, t1>>)
       IN  /\ blocks' = Append(blocks, <<t0, t1>>)
           /\ t0' = t1
           /\ IF ~KeywordsAccepted(query, kwOffset)
              THEN /\ pc' = "done"
                   /\ outcome' = Raised("TypeError")
                   /\ UNCHANGED <<frames, requests, voids>>
              ELSE \E r \in Answers(w[1], w[2], 0) :
                     /\ requests' = Append(requests, Request(w[1], w[2], 0, r))
                     /\ voids' = IF r = "void" THEN voids + 1 ELSE voids
                     /\ frames' = IF r = "ok"
                                  THEN Append(frames, Frame(<< <<w[1], w[2], 0>> >>))
                                  ELSE frames
                     /\ IF r \in {"ok", "void", "NoMatchingDataError"}
                        THEN UNCHANGED <<pc, outcome>>
                        ELSE /\ pc' = "done"
                             /\ outcome' = Raised(r)
    /\ UNCHANGED <<start, end, freq, query, kwOffset, n, offset, pframes,
                   server, rejects, stack, arg, out>>

\* split_query.wrapper: the blocks are exhausted, it concatenates and returns
SplitFinish ==
    /\ pc = "split"
    /\ ~(t0 < end)
    /\ LET c == Concat(frames)
       IN  outcome' = IF c.error # "" THEN Raised(c.error) ELSE Returned(c.frame)
    /\ pc' = "done"
    /\ UNCHANGED <<start, end, freq, t0, blocks, query, kwOffset, n, offset,
                   pframes, frames, requests, server, voids, rejects, stack, arg, out>>

Next == SplitBlockPaged \/ SplitPage \/ SplitBlockDirect \/ SplitFinish

Spec == Init /\ [][Next]_vars

----------------------------------------------------------------------------
(* Claims about the decorated queries.                                     *)

Last(q) == q[Len(q)]

\* the rows of the requests among rs that were answered with data
RECURSIVE OkRows(_)
OkRows(rs) ==
    IF rs = <<>> THEN <<>>
    ELSE (IF rs[1].answer = "ok"
          THEN << <<rs[1].s, rs[1].e, rs[1].offset>> >> ELSE <<>>) \o OkRows(Tail(rs))

\* the requests among rs made for the window [s, e)
RECURSIVE ForWindow(_, _, _)
ForWindow(rs, s, e) ==
    IF rs = <<>> THEN <<>>
    ELSE (IF rs[1].s = s /\ rs[1].e = e THEN <<rs[1]>> ELSE <<>>)
         \o ForWindow(Tail(rs), s, e)

(* C2: a request that fails with PaginationError is bisected and retried;  *)
(* PaginationError is never what the caller of a query receives.           *)

C2_PaginationErrorNotRaised ==
    ~(outcome.kind = "raised" /\ outcome.error = "PaginationError")

(* C5: a block or page answered NoMatchingDataError is skipped: when no    *)
(* request met any other error and some request returned data, the call    *)
(* returns, every block of the interval was requested, and the result      *)
(* holds the rows of the requests that returned data.                      *)

C5_NoDataIsSkipped ==
    (/\ pc = "done"
     /\ requests # <<>>
     /\ \A i \in 1..Len(requests) :
           requests[i].answer \in {"ok", "void", "NoMatchingDataError"}
     /\ \E i \in 1..Len(requests) : requests[i].answer = "NoMatchingDataError"
     /\ \E i \in 1..Len(requests) : requests[i].answer = "ok")
    => /\ outcome.kind = "returned"
       /\ ~(t0 < end)
       /\ \A b \in 1..Len(blocks) :
             ForWindow(requests, Window(blocks[b])[1], Window(blocks[b])[2]) # <<>>
       /\ outcome.frame.rows = OkRows(requests)

(* C6: when every request of a query is answered NoMatchingDataError the   *)
(* call returns an empty or absent result; it does not raise.              *)

C6_AllNoDataReturns ==
    (/\ pc = "done"
     /\ requests # <<>>
     /\ \A i \in 1..Len(requests) : requests[i].answer = "NoMatchingDataError")
    => outcome.kind = "returned"

(* C7: a query over an interval with start >= end issues no request and    *)
(* returns an empty result; it does not raise.                             *)

C7_EmptyIntervalReturns ==
    (start >= end) =>
        /\ requests = <<>>
        /\ blocks = <<>>
        /\ (pc = "done" => outcome.kind = "returned")

(* C8: no request handed to the transport spans more than the split        *)
(* duration of one year, the truncation by inclusive("1d", "left")         *)
(* included.                                                               *)

C8_RequestWithinSplitDuration ==
    \A i \in 1..Len(requests) :
        requests[i].e <= AddDelta(requests[i].s, Dur(1, 0, 0, 0))

C8_Witness ==
    \E i \in 1..Len(requests) :
        /\ requests[i].e = SubDelta(AddDelta(requests[i].s, Dur(1, 0, 0, 0)),
                                    Dur(0, 0, 1, 0))
        /\ Len(blocks) >= 2

(* C10: when the paging of a block ends at the first page answered         *)
(* NoMatchingDataError, no error is raised and the block's table holds     *)
(* exactly the rows of the earlier pages, in offset order.                 *)

C10_BlockKeepsPagesBeforeNoData ==
    (/\ query = "day_ahead"
     /\ requests # <<>>
     /\ Last(requests).answer = "NoMatchingDataError")
    => /\ outcome.kind # "raised"
       /\ frames # <<>>
       /\ Last(frames).rows =
              OkRows(ForWindow(requests, Last(requests).s, Last(requests).e))

(* C13: a request classified InvalidBusinessParameterError or              *)
(* InvalidPSRTypeError ends the query: it is the last request made (not    *)
(* retried, not bisected, not skipped as an empty contribution) and the    *)
(* caller receives that same error.                                        *)

CallerErrors == {"InvalidBusinessParameterError", "InvalidPSRTypeError"}

C13_CallerErrorsPropagate ==
    \A i \in 1..Len(requests) :
        requests[i].answer \in CallerErrors
        => /\ i = Len(requests)
           /\ pc = "done"
           /\ outcome = Raised(requests[i].answer)

C13_Witness ==
    /\ query = "day_ahead"
    /\ Len(requests) >= 3
    /\ Len(blocks) = 2
    /\ Last(requests).answer = "InvalidPSRTypeError"
    /\ outcome = Raised("InvalidPSRTypeError")

(***************************************************************************)
(* Client._base_request and raise_response_error                           *)
(*                                                                         *)
(* A response is described by what raise_response_error reads of it: the   *)
(* status code, the <text> elements of the body in document order (each by *)
(* the set of error patterns its text contains and by the number of items  *)
(* error_text.split(" ") yields), the content-type header, and whether     *)
(* "No matching data found" occurs anywhere in the body.                   *)
(***************************************************************************)

MaxAttempts == 3

PatternOrder == <<"NoMatch", "Dependency", "PSRType", "Amount", "Offset">>

Patterns == {PatternOrder[i] : i \in 1..Len(PatternOrder)}

\* number of words of the pattern's phrase
PatternWords(p) ==
    CASE p = "NoMatch"    -> 4
      [] p = "Dependency" -> 6
      [] p = "PSRType"    -> 6
      [] p = "Amount"     -> 7
      [] p = "Offset"     -> 13

ErrorOf(p) ==
    CASE p = "NoMatch"    -> "NoMatchingDataError"
      [] p = "Dependency" -> "InvalidBusinessParameterError"
      [] p = "PSRType"    -> "InvalidPSRTypeError"
      [] p = "Amount"     -> "PaginationError"
      [] p = "Offset"     -> "PaginationError"

\* the deepest index from the end that the branch of pattern p reads in
\* error_text.split(" ")
DeepestToken(p) ==
    CASE p = "Amount" -> 5
      [] p = "Offset" -> 30
      [] OTHER        -> 0

RECURSIVE MaxOf(_)
MaxOf(S) ==
    IF S = {} THEN 1
    ELSE LET x == CHOOSE y \in S : TRUE
             r == MaxOf(S \ {x})
         IN  IF x > r THEN x ELSE r

MinTokens(has) == MaxOf({PatternWords(p) : p \in has})

FirstTexts ==
    UNION {{[has |-> h, tokens |-> k] : k \in {MinTokens(h), 29, 30}} :
              h \in {x \in SUBSET Patterns : Cardinality(x) <= 2}}

LaterTexts == {[has |-> {"NoMatch"}, tokens |-> 4], [has |-> {}, tokens |-> 1]}

TextLists ==
    {<<>>} \cup {<<t>> : t \in FirstTexts}
           \cup {<<t, u>> : t \in FirstTexts, u \in LaterTexts}

StatusCodes == {200, 400, 503}

ContentTypes == {"application/xml", "text/xml", "application/zip", ""}

ServerResponses ==
    {r \in [status : StatusCodes, texts : TextLists,
            ctype : ContentTypes, marker : BOOLEAN] :
        (\E i \in 1..Len(r.texts) : "NoMatch" \in r.texts[i].has) => r.marker}

TransportErrors == {"ConnectError", "ReadTimeout"}

NoResponse == [status |-> 0, texts |-> <<>>, ctype |-> "", marker |-> FALSE]

IsSuccess(status) == status \div 100 = 2

\* branch of one pattern: PaginationError carries tokens read from the end
BranchOf(p, t) ==
    IF t.tokens >= DeepestToken(p) THEN ErrorOf(p) ELSE "IndexError"

RECURSIVE FirstBranch(_, _)
FirstBranch(i, t) ==
    IF i > Len(PatternOrder) THEN "HTTPStatusError"
    ELSE IF PatternOrder[i] \in t.has THEN BranchOf(PatternOrder[i], t)
    ELSE FirstBranch(i + 1, t)

ClassifyError_Body(r) ==
    IF r.marker THEN "NoMatchingDataError" ELSE "HTTPStatusError"

\* raise_response_error, the except branch (raise_for_status raised)
ClassifyError(r) ==
    IF Len(r.texts) > 0 THEN FirstBranch(1, r.texts[1]) ELSE "HTTPStatusError"

ClassifySuccess_AnyType(r) ==
    IF r.marker THEN "NoMatchingDataError" ELSE "returned"

\* raise_response_error, the else branch (2xx)
ClassifySuccess(r) ==
    IF r.ctype = "application/xml" /\ r.marker
    THEN "NoMatchingDataError" ELSE "returned"

RaiseResponseError(r) ==
    IF IsSuccess(r.status) THEN ClassifySuccess(r) ELSE ClassifyError(r)

ShouldRetry_AnyError(result) == result # "returned"

\* retry_if_exception_type(httpx.ConnectError)
ShouldRetry(result) == result = "ConnectError"

\* stop_after_attempt(3)
StopAfterAttempt(k) == k >= MaxAttempts

AttemptRecord(exc, r, res) == [raised |-> exc, response |-> r, result |-> res]

RequestUnused ==
    /\ start = 0 /\ end = 0 /\ freq = Dur(0, 0, 0, 0) /\ t0 = 0
    /\ blocks = <<>> /\ query = "none" /\ kwOffset = FALSE /\ n = 0
    /\ offset = 0 /\ pframes = <<>> /\ frames = <<>> /\ requests = <<>>
    /\ server = NoServer /\ voids = 0 /\ rejects = 0 /\ stack = <<>>

InitRequest ==
    /\ RequestUnused
    /\ arg \in {[periodStart |-> s, periodEnd |-> s + 1] : s \in 0..1}
    /\ out = <<>>
    /\ outcome = Idle
    /\ pc = "request"

\* what tenacity does with the attempt that has just ended
AfterAttempt(log) ==
    LET a == Last(log)
    IN  IF a.result = "returned"
        THEN /\ pc' = "done"
             /\ outcome' = Returned(a.response)
        ELSE IF ShouldRetry(a.result)
        THEN IF StopAfterAttempt(Len(log))
             THEN /\ pc' = "done"
                  /\ outcome' = Raised("RetryError")
             ELSE /\ pc' = "request"
                  /\ outcome' = outcome
        ELSE /\ pc' = "done"
             /\ outcome' = Raised(a.result)

\* session.get raises: no response reaches raise_response_error
AttemptFails ==
    /\ pc = "request"
    /\ \E exc \in TransportErrors :
          /\ out' = Append(out, AttemptRecord(exc, NoResponse, exc))
          /\ AfterAttempt(out')
    /\ UNCHANGED <<start, end, freq, t0, blocks, query, kwOffset, n, offset,
                   pframes, frames, requests, server, voids, rejects, stack,
                   arg>>

\* session.get returns a response, which raise_response_error classifies
AttemptAnswered ==
    /\ pc = "request"
    /\ \E r \in ServerResponses :
          /\ out' = Append(out, AttemptRecord("", r, RaiseResponseError(r)))
          /\ AfterAttempt(out')
    /\ UNCHANGED <<start, end, freq, t0, blocks, query, kwOffset, n, offset,
                   pframes, frames, requests, server, voids, rejects, stack,
                   arg>>

NextRequest == AttemptFails \/ AttemptAnswered

SpecRequest == InitRequest /\ [][NextRequest]_vars

Answered(i) == i \in 1..Len(out) /\ out[i].raised = ""

Ended(i, o) == i = Len(out) /\ pc = "done" /\ outcome = o

SemanticErrors == {"NoMatchingDataError", "InvalidBusinessParameterError",
                   "InvalidPSRTypeError", "PaginationError"}

(* C11: one call of _base_request makes at most three attempts; every      *)
(* attempt but the last ended in ConnectError; an attempt whose response   *)
(* is classified as a semantic error is not repeated and the call raises   *)
(* that error.                                                             *)
C11_RetryOnlyConnectError ==
    /\ Len(out) <= MaxAttempts
    /\ \A i \in 1..Len(out) :
          /\ i < Len(out) => out[i].result = "ConnectError"
          /\ out[i].result \in SemanticErrors => Ended(i, Raised(out[i].result))
          /\ (i = 1 /\ out[i].result \in SemanticErrors) => Len(out) = 1

C11_Witness ==
    /\ pc = "done"
    /\ Len(out) = MaxAttempts
    /\ out[1].result = "ConnectError"
    /\ out[2].result = "ConnectError"
    /\ out[3].result = "InvalidBusinessParameterError"
    /\ outcome = Raised("InvalidBusinessParameterError")

(* C12: when all three attempts end in ConnectError the caller receives    *)
(* that ConnectError itself.                                               *)
C12_ExhaustionRaisesConnectError ==
    (/\ pc = "done"
     /\ Len(out) = MaxAttempts
     /\ Last(out).result = "ConnectError")
    => outcome = Raised("ConnectError")

(* C14: a non-2xx response with no <text> element, or whose first <text>   *)
(* contains none of the patterns, ends the call with the HTTP error of     *)
(* raise_for_status; no non-2xx response is returned, and such a response  *)
(* is not classified NoMatchingDataError.                                  *)
C14_UnclassifiedRaisesHTTPError ==
    \A i \in 1..Len(out) :
        (Answered(i) /\ ~IsSuccess(out[i].response.status))
        => /\ out[i].result # "returned"
           /\ outcome.kind # "returned"
           /\ (\/ out[i].response.texts = <<>>
               \/ out[i].response.texts[1].has = {})
              => /\ out[i].result = "HTTPStatusError"
                 /\ Ended(i, Raised("HTTPStatusError"))

C14_Witness ==
    /\ pc = "done"
    /\ Len(out) = 2
    /\ Last(out).response.status = 503
    /\ Last(out).response.marker
    /\ Last(out).response.ctype = "application/xml"
    /\ Len(Last(out).response.texts) = 2
    /\ Last(out).response.texts[1].has = {}
    /\ Last(out).response.texts[2].has = {"NoMatch"}
    /\ outcome = Raised("HTTPStatusError")

FirstPattern(has) ==
    PatternOrder[CHOOSE i \in 1..Len(PatternOrder) :
                    /\ PatternOrder[i] \in has
                    /\ \A j \in 1..(i - 1) : PatternOrder[j] \notin has]

(* C15: a non-2xx response whose first <text> contains a pattern is        *)
(* classified by the first pattern, in the order no-data, dependency       *)
(* tables, not valid for this area, amount exceeds limit, offset exceeds   *)
(* limit, that occurs in it.                                               *)
C15_FirstPatternDecides ==
    \A i \in 1..Len(out) :
        (/\ Answered(i)
         /\ ~IsSuccess(out[i].response.status)
         /\ out[i].response.texts # <<>>
         /\ out[i].response.texts[1].has # {})
        => out[i].result = ErrorOf(FirstPattern(out[i].response.texts[1].has))

(* C16: a 2xx response is classified NoMatchingDataError exactly when its  *)
(* content type is application/xml and its body contains the no-data       *)
(* marker; every other 2xx response is returned as it is.                  *)
C16_SuccessNoDataOnlyXml ==
    \A i \in 1..Len(out) :
        (Answered(i) /\ IsSuccess(out[i].response.status))
        => LET r == out[i].response
           IN  IF r.ctype = "application/xml" /\ r.marker
               THEN Ended(i, Raised("NoMatchingDataError"))
               ELSE Ended(i, Returned(r))

C16_Witness ==
    /\ pc = "done"
    /\ Len(out) = 2
    /\ Last(out).response.status = 200
    /\ Last(out).response.ctype = "text/xml"
    /\ Last(out).response.marker
    /\ outcome = Returned(Last(out).response)

(***************************************************************************)
(* inclusive(granularity, closed) around an arbitrary wrapped call         *)
(***************************************************************************)

ClosedValues == {"both", "left", "right", "neither"}

InclGranularities == {Dur(0, 0, 1, 0), Dur(0, 1, 0, 0), Dur(1, 0, 0, 0),
                      Dur(0, 0, 0, 1)}

InclStarts == {Date(2023, 3, 31), Date(2024, 2, 29) + 1, Date(2024, 1, 1)}

InclWidths == {0, 1, 2 * TicksPerDay, 31 * TicksPerDay}

\* positional arguments and further keyword arguments of the call
InclArgs == {<<"FR">>, <<"DE_LU", "A01">>}

InclKwargs == {[x \in {} |-> 0], [_offset |-> 0], [_offset |-> 100]}

\* what the wrapped call may do
CallResults == {Returned(Frame(<<1>>)), Returned(None),
                Raised("NoMatchingDataError"), Raised("PaginationError")}

InclUnused ==
    /\ freq = Dur(0, 0, 0, 0) /\ t0 = 0
    /\ blocks = <<>> /\ query = "none" /\ kwOffset = FALSE /\ n = 0
    /\ offset = 0 /\ pframes = <<>> /\ frames = <<>> /\ requests = <<>>
    /\ server = NoServer /\ voids = 0 /\ rejects = 0 /\ stack = <<>>

InitIncl ==
    /\ InclUnused
    /\ start \in InclStarts
    /\ end \in {start + w : w \in InclWidths}
    /\ arg \in [closed : ClosedValues, granularity : InclGranularities,
                args : InclArgs, kwargs : InclKwargs]
    /\ out = <<>>
    /\ outcome = Idle
    /\ pc = "wrapper"

\* wrapper: computes _start and _end and calls func
InclCall ==
    /\ pc = "wrapper"
    /\ LET w == Inclusive(arg.closed, arg.granularity, start, end)
       IN  out' = <<[args |-> arg.args, start |-> w[1], end |-> w[2],
                     kwargs |-> arg.kwargs]>>
    /\ pc' = "func"
    /\ UNCHANGED <<start, end, freq, t0, blocks, query, kwOffset, n, offset,
                   pframes, frames, requests, outcome, server, voids, rejects,
                   stack, arg>>

\* func ends; wrapper returns or raises what func did
InclReturn ==
    /\ pc = "func"
    /\ outcome' \in CallResults
    /\ pc' = "done"
    /\ UNCHANGED <<start, end, freq, t0, blocks, query, kwOffset, n, offset,
                   pframes, frames, requests, server, voids, rejects, stack,
                   arg, out>>

NextIncl == InclCall \/ InclReturn

SpecIncl == InitIncl /\ [][NextIncl]_vars

(* C17: the call made by inclusive has start and end unchanged for both;   *)
(* end moved back by the granularity for left; start moved forward by the  *)
(* granularity for right; both moves for neither; the other arguments are  *)
(* those of the caller, exactly one call is made, and the wrapper raises   *)
(* nothing of its own.                                                     *)
C17_InclusiveShiftsEdges ==
    /\ Len(out) <= 1
    /\ pc # "wrapper" => Len(out) = 1
    /\ \A i \in 1..Len(out) :
          /\ out[i].start = IF arg.closed \in {"right", "neither"}
                            THEN AddDelta(start, arg.granularity) ELSE start
          /\ out[i].end = IF arg.closed \in {"left", "neither"}
                          THEN SubDelta(end, arg.granularity) ELSE end
          /\ out[i].args = arg.args
          /\ out[i].kwargs = arg.kwargs
    /\ pc = "done" => outcome \in CallResults

C17_Witness ==
    /\ pc = "done"
    /\ arg.closed = "right"
    /\ arg.granularity = Dur(0, 1, 0, 0)
    /\ start = Date(2023, 3, 31)
    /\ end = start + 2 * TicksPerDay
    /\ out[1].start = Date(2023, 4, 30)
    /\ out[1].end = end
    /\ arg.kwargs = [_offset |-> 100]

(***************************************************************************)
(* parse_timeseries_generic: instants in minutes                           *)
(***************************************************************************)

MinutesPerDay == 24 * 60

DateTime(y, m, d, h) == Ordinal(y, m, d) * MinutesPerDay + h * 60

Resolutions == {"PT60M", "P1Y", "PT15M", "PT30M", "P1D", "P7D", "P1M", "PT1M"}

\* resolution_to_timedelta: the table, ticks being minutes
ResolutionToTimedelta(res) ==
    CASE res = "PT60M" -> Dur(0, 0, 0, 60)
      [] res = "P1Y"   -> Dur(1, 0, 0, 0)
      [] res = "PT15M" -> Dur(0, 0, 0, 15)
      [] res = "PT30M" -> Dur(0, 0, 0, 30)
      [] res = "P1D"   -> Dur(0, 0, 1, 0)
      [] res = "P7D"   -> Dur(0, 0, 7, 0)
      [] res = "P1M"   -> Dur(0, 1, 0, 0)
      [] res = "PT1M"  -> Dur(0, 0, 0, 1)

\* int * timedelta, int * relativedelta
Scale(k, f) == Dur(k * f.years, k * f.months, k * f.days, k * f.ticks)

PointTimestamp_FromZero(s, position, delta) ==
    AddDeltaAt(MinutesPerDay, s, Scale(position, delta))

\* start + (position - 1) * delta
PointTimestamp(s, position, delta) ==
    AddDeltaAt(MinutesPerDay, s, Scale(position - 1, delta))

PeriodStarts == {DateTime(2023, 1, 1, 0), DateTime(2022, 12, 31, 23),
                 DateTime(2024, 2, 29, 0)}

PeriodResolutions == Resolutions \cup {"PT5M"}

PositionLists == {<<>>, <<1, 2, 3>>, <<4, 1, 3>>, <<2, 5>>}

Periods == [start : PeriodStarts, resolution : PeriodResolutions,
            positions : PositionLists]

Documents == {<<a>> : a \in Periods} \cup
             {<<a, b>> : a \in Periods,
                         b \in {x \in Periods : x.start = DateTime(2023, 1, 1, 0)}}

\* the value of the k-th point of the i-th period: each point has its own
PointValue(i, k) == 10 * i + k

NoColumns == [c \in {} |-> <<>>]

\* data[key].append(x) on a defaultdict(list)
AppendTo(data, key, x) ==
    [c \in DOMAIN data \cup {key} |->
        IF c = key
        THEN Append(IF key \in DOMAIN data THEN data[key] ELSE <<>>, x)
        ELSE data[c]]

TimestampColumn(res) == <<res, "_timestamp">>

ValueColumn(res) == <<res, "_value">>

DecodeUnused ==
    /\ start = 0 /\ end = 0 /\ freq = Dur(0, 0, 0, 0) /\ t0 = 0
    /\ blocks = <<>> /\ query = "none" /\ kwOffset = FALSE /\ n = 0
    /\ offset = 0 /\ pframes = <<>> /\ frames = <<>> /\ requests = <<>>
    /\ server = NoServer /\ voids = 0 /\ rejects = 0 /\ stack = <<>>

InitDecode ==
    /\ DecodeUnused
    /\ arg \in Documents
    /\ out = [data |-> NoColumns, i |-> 1, k |-> 1]
    /\ outcome = Idle
    /\ pc = "period"

\* nw.from_dict: columns of unequal length make no table; the empty
\* dictionary is refused by some versions of the library and accepted by
\* others
FromDict(data) ==
    IF \E c, d \in DOMAIN data : Len(data[c]) # Len(data[d])
    THEN {Raised("ShapeError")}
    ELSE IF DOMAIN data = {}
    THEN {Raised("ValueError"), Returned(data)}
    ELSE {Returned(data)}

\* one iteration of `for period in ...` up to its first point
DecodePeriod ==
    /\ pc = "period"
    /\ out.i <= Len(arg)
    /\ LET per == arg[out.i]
       IN  IF per.resolution \notin Resolutions
           THEN /\ pc' = "done"
                /\ outcome' = Raised("NotImplementedError")
                /\ out' = out
           ELSE IF per.positions = <<>>
           THEN /\ pc' = "period"
                /\ outcome' = outcome
                /\ out' = [out EXCEPT !.i = out.i + 1, !.k = 1]
           ELSE /\ pc' = "point"
                /\ outcome' = outcome
                /\ out' = [out EXCEPT !.k = 1]
    /\ UNCHANGED <<start, end, freq, t0, blocks, query, kwOffset, n, offset,
                   pframes, frames, requests, server, voids, rejects, stack,
                   arg>>

\* one iteration of `for point in ...`: the two appends
DecodePoint ==
    /\ pc = "point"
    /\ LET per   == arg[out.i]
           res   == per.resolution
           ts    == PointTimestamp(per.start, per.positions[out.k],
                                   ResolutionToTimedelta(res))
           data1 == AppendTo(out.data, TimestampColumn(res), ts)
           data2 == AppendTo(data1, ValueColumn(res), PointValue(out.i, out.k))
       IN  IF out.k < Len(per.positions)
           THEN /\ out' = [data |-> data2, i |-> out.i, k |-> out.k + 1]
                /\ pc' = "point"
           ELSE /\ out' = [data |-> data2, i |-> out.i + 1, k |-> 1]
                /\ pc' = "period"
    /\ UNCHANGED <<start, end, freq, t0, blocks, query, kwOffset, n, offset,
                   pframes, frames, requests, outcome, server, voids, rejects,
                   stack, arg>>

\* after the last period: return nw.from_dict(data, schema, backend=backend)
DecodeFinish ==
    /\ pc = "period"
    /\ out.i > Len(arg)
    /\ outcome' \in FromDict(out.data)
    /\ pc' = "done"
    /\ UNCHANGED <<start, end, freq, t0, blocks, query, kwOffset, n, offset,
                   pframes, frames, requests, server, voids, rejects, stack,
                   arg, out>>

NextDecode == DecodePeriod \/ DecodePoint \/ DecodeFinish

SpecDecode == InitDecode /\ [][NextDecode]_vars

\* the k-th point of the i-th period has been appended
Decoded(i, k) ==
    /\ i \in 1..Len(arg)
    /\ k \in 1..Len(arg[i].positions)
    /\ \/ i < out.i
       \/ i = out.i /\ pc = "point" /\ k < out.k

\* the timestamp stored beside the value of that point
StoredTimestamp(i, k) ==
    LET res == arg[i].resolution
        vs  == out.data[ValueColumn(res)]
        x   == CHOOSE j \in 1..Len(vs) : vs[j] = PointValue(i, k)
    IN  out.data[TimestampColumn(res)][x]

DecodedPoints ==
    UNION {{<<i, k>> : k \in {x \in 1..Len(arg[i].positions) : Decoded(i, x)}} :
              i \in 1..Len(arg)}

FixedLength(res) ==
    ResolutionToTimedelta(res).years = 0 /\ ResolutionToTimedelta(res).months = 0

\* the length of a fixed-length resolution, in minutes
Minutes(res) ==
    ResolutionToTimedelta(res).days * MinutesPerDay + ResolutionToTimedelta(res).ticks

ColumnsPaired ==
    /\ DOMAIN out.data \subseteq
          {TimestampColumn(r) : r \in Resolutions} \cup
          {ValueColumn(r) : r \in Resolutions}
    /\ \A r \in Resolutions :
          /\ TimestampColumn(r) \in DOMAIN out.data
                <=> \E ik \in DecodedPoints : arg[ik[1]].resolution = r
          /\ TimestampColumn(r) \in DOMAIN out.data
                => /\ ValueColumn(r) \in DOMAIN out.data
                   /\ Len(out.data[TimestampColumn(r)]) =
                         Cardinality({ik \in DecodedPoints :
                                         arg[ik[1]].resolution = r})
                   /\ Len(out.data[ValueColumn(r)]) =
                         Len(out.data[TimestampColumn(r)])

(* C18 as stated: each decoded point's timestamp is period.start +         *)
(* (p - 1) * resolution, and for two points of one period at positions     *)
(* p1 < p2 the later timestamp is the earlier one plus (p2 - p1) * R, for  *)
(* every resolution R; the columns come in per-resolution pairs of equal   *)
(* length.                                                                 *)
C18_DifferenceIsMultipleOfResolution ==
    /\ ColumnsPaired
    /\ \A a, b \in DecodedPoints :
          (/\ a[1] = b[1]
           /\ arg[a[1]].positions[a[2]] < arg[b[1]].positions[b[2]])
          => LET per == arg[a[1]]
                 p1  == per.positions[a[2]]
                 p2  == per.positions[b[2]]
             IN  StoredTimestamp(b[1], b[2]) =
                    AddDeltaAt(MinutesPerDay, StoredTimestamp(a[1], a[2]),
                               Scale(p2 - p1, ResolutionToTimedelta(per.resolution)))

(* C18, amended: each decoded point's timestamp is period.start +          *)
(* (p - 1) * resolution, whatever the order of the positions; for the      *)
(* fixed-length resolutions two points of one period at positions p1 < p2  *)
(* lie exactly (p2 - p1) * R apart; the columns come in per-resolution     *)
(* pairs of equal length.                                                  *)
C18_TimestampFromStartAndPosition ==
    /\ ColumnsPaired
    /\ \A a \in DecodedPoints :
          LET per == arg[a[1]]
          IN  StoredTimestamp(a[1], a[2]) =
                 AddDeltaAt(MinutesPerDay, per.start,
                            Scale(per.positions[a[2]] - 1,
                                  ResolutionToTimedelta(per.resolution)))
    /\ \A a, b \in DecodedPoints :
          (/\ a[1] = b[1]
           /\ FixedLength(arg[a[1]].resolution)
           /\ arg[a[1]].positions[a[2]] < arg[b[1]].positions[b[2]])
          => StoredTimestamp(b[1], b[2]) - StoredTimestamp(a[1], a[2]) =
                (arg[b[1]].positions[b[2]] - arg[a[1]].positions[a[2]])
                   * Minutes(arg[a[1]].resolution)

C18_Witness ==
    /\ pc = "done"
    /\ Len(arg) = 2
    /\ arg[1].resolution = "P1M"
    /\ arg[1].start = DateTime(2022, 12, 31, 23)
    /\ arg[1].positions = <<4, 1, 3>>
    /\ arg[2].resolution = "PT15M"
    /\ arg[2].positions = <<4, 1, 3>>
    /\ out.data[TimestampColumn("P1M")] =
          <<DateTime(2023, 3, 31, 23), DateTime(2022, 12, 31, 23),
            DateTime(2023, 2, 28, 23)>>
    /\ out.data[TimestampColumn("PT15M")] =
          <<DateTime(2023, 1, 1, 0) + 45, DateTime(2023, 1, 1, 0),
            DateTime(2023, 1, 1, 0) + 30>>
    /\ out.data[ValueColumn("PT15M")] = <<21, 22, 23>>
    /\ outcome = Returned(out.data)

(***************************************************************************)
(* parse_freq: a duration string, character by character                   *)
(***************************************************************************)

Digits == {"0", "1", "2"}

Alphabet == Digits \cup {".", "y", "m", "d", "h", "s", "x"}

FreqStrings == UNION {[1..k -> Alphabet] : k \in 0..MaxLen}

\* the unit letter and the group name of the six optional groups, in order
Units == <<"y", "m", "d", "h", "m", "s">>

Fields == <<"years", "months", "days", "hours", "minutes", "seconds">>

\* [\.\d]
IsNumChar(c) == c \in Digits \cup {"."}

\* the index after the longest run of [\.\d] that begins at i
RECURSIVE RunEnd(_, _)
RunEnd(str, i) ==
    IF i <= Len(str) /\ IsNumChar(str[i]) THEN RunEnd(str, i + 1) ELSE i

NoGroups == [f \in {} |-> <<>>]

\* regex.match(freq) from group g at index i: the groupdict of the matched
\* groups, or "no match"
RECURSIVE MatchFrom(_, _, _, _)
MatchFrom(str, i, g, groups) ==
    IF g > Len(Units)
    THEN IF i = Len(str) + 1 THEN [matched |-> TRUE, groups |-> groups]
         ELSE [matched |-> FALSE, groups |-> NoGroups]
    ELSE LET j == RunEnd(str, i)
         IN  IF j > i /\ j <= Len(str) /\ str[j] = Units[g]
             THEN MatchFrom(str, j + 1, g + 1,
                            [f \in DOMAIN groups \cup {Fields[g]} |->
                                IF f = Fields[g] THEN SubSeq(str, i, j - 1)
                                ELSE groups[f]])
             ELSE MatchFrom(str, i, g + 1, groups)

DigitValue(c) == CASE c = "0" -> 0 [] c = "1" -> 1 [] c = "2" -> 2

RECURSIVE IntValue(_)
IntValue(ds) ==
    IF ds = <<>> THEN 0
    ELSE 10 * IntValue(SubSeq(ds, 1, Len(ds) - 1)) + DigitValue(ds[Len(ds)])

Dots(param) == {i \in 1..Len(param) : param[i] = "."}

\* float(param): [valid, whole part, whether there is a fractional part]
Float(param) ==
    IF Cardinality(Dots(param)) > 1 \/ Cardinality(Dots(param)) = Len(param)
    THEN [valid |-> FALSE, whole |-> 0, frac |-> FALSE]
    ELSE LET dot == IF Dots(param) = {} THEN Len(param) + 1
                    ELSE CHOOSE i \in Dots(param) : TRUE
         IN  [valid |-> TRUE,
              whole |-> IntValue(SubSeq(param, 1, dot - 1)),
              frac  |-> \E i \in (dot + 1)..Len(param) : param[i] # "0"]

FieldsSet == {Fields[i] : i \in 1..Len(Fields)}

\* relativedelta(**time_params): the fields not given are zero
Relativedelta(params) ==
    [f \in FieldsSet |-> IF f \in DOMAIN params THEN params[f].whole ELSE 0]

\* parse_freq(freq)
ParseFreq(str) ==
    LET parts  == MatchFrom(str, 1, 1, NoGroups)
        params == [f \in DOMAIN parts.groups |-> Float(parts.groups[f])]
    IN  IF ~parts.matched
        THEN [kind |-> "ParseError", value |-> Relativedelta(NoGroups), frac |-> FALSE]
        ELSE IF \E f \in DOMAIN params : ~params[f].valid
        THEN [kind |-> "ValueError", value |-> Relativedelta(NoGroups), frac |-> FALSE]
        ELSE IF \E f \in DOMAIN params \cap {"years", "months"} : params[f].frac
        THEN [kind |-> "ValueError", value |-> Relativedelta(NoGroups), frac |-> FALSE]
        ELSE [kind |-> "ok", value |-> Relativedelta(params),
              frac |-> \E f \in DOMAIN params : params[f].frac]

\* a parsed duration of length zero
IsZeroFreq(r) == ~r.frac /\ \A f \in FieldsSet : r.value[f] = 0

FreqUnused ==
    /\ start = 0 /\ end = 0 /\ freq = Dur(0, 0, 0, 0) /\ t0 = 0
    /\ blocks = <<>> /\ query = "none" /\ kwOffset = FALSE /\ n = 0
    /\ offset = 0 /\ pframes = <<>> /\ frames = <<>> /\ requests = <<>>
    /\ server = NoServer /\ voids = 0 /\ rejects = 0 /\ stack = <<>>

InitFreq ==
    /\ FreqUnused
    /\ arg \in FreqStrings
    /\ out = <<>>
    /\ outcome = Idle
    /\ pc = "parse"

ParseFreqCall ==
    /\ pc = "parse"
    /\ LET r == ParseFreq(arg)
       IN  /\ out' = <<r>>
           /\ outcome' = IF r.kind = "ok" THEN Returned(r.value)
                         ELSE Raised(r.kind)
    /\ pc' = "done"
    /\ UNCHANGED <<start, end, freq, t0, blocks, query, kwOffset, n, offset,
                   pframes, frames, requests, server, voids, rejects, stack,
                   arg>>

NextFreq == ParseFreqCall

SpecFreq == InitFreq /\ [][NextFreq]_vars

(* C19: parse_freq raises ParseError for the empty string and for every    *)
(* string in which no field of the grammar matches, and never returns a    *)
(* duration of length zero.                                                *)
C19_ZeroDurationRejected ==
    pc = "done"
    => /\ (arg = <<>> => outcome = Raised("ParseError"))
       /\ (\A i \in 1..Len(arg) : arg[i] \notin {"y", "m", "d", "h", "s"})
             => outcome = Raised("ParseError")
       /\ outcome.kind = "returned" => ~IsZeroFreq(out[1])

(***************************************************************************)
(* split_query(freq): yield_date_range over what parse_freq returns        *)
(***************************************************************************)

SecondsPerDay == 24 * 60 * 60

SubDaySeconds(v) == v["hours"] * 3600 + v["minutes"] * 60 + v["seconds"]

\* the relativedelta as a duration of the calendar specifications
ToDur(v) ==
    Dur(v["years"], v["months"], v["days"],
        (SubDaySeconds(v) * TicksPerDay) \div SecondsPerDay)

WholeTicks(v) == (SubDaySeconds(v) * TicksPerDay) % SecondsPerDay = 0

\* the durations parse_freq returns for some string, as far as they are a
\* whole number of ticks
AcceptedFreqs ==
    {ToDur(ParseFreq(str).value) :
        str \in {x \in FreqStrings : /\ ParseFreq(x).kind = "ok"
                                     /\ ~ParseFreq(x).frac
                                     /\ WholeTicks(ParseFreq(x).value)}}

(* C20: for a split duration that parse_freq returns, every block that     *)
(* yield_date_range yields ends after it starts, so that the blocks are    *)
(* at most as many as the ticks between start and end.                     *)
C20_SplitLoopAdvances ==
    freq \in AcceptedFreqs
    => /\ \A i \in 1..Len(blocks) : blocks[i][1] < blocks[i][2]
       /\ start < end => Len(blocks) <= end - start

----------------------------------------------------------------------------
(* C21: when the caller's interval has start < end, every request handed   *)
(* to the transport has periodStart <= periodEnd: the window that          *)
(* inclusive("1d", "left") makes of a block of the split is never          *)
(* inverted.                                                               *)
C21_WindowNotInverted ==
    start < end => \A i \in 1..Len(requests) : requests[i].s <= requests[i].e

(* C22: after one bisection in paginated, with each half either returning  *)
(* a table, returning no table, or ending in NoMatchingDataError, the call *)
(* returns: the rows of the halves that have data, first half first, or    *)
(* None when neither has data; it raises nothing.                          *)
C22_MergeSkipsEmptyHalf ==
    (/\ pc = "done"
     /\ server.kind = "any"
     /\ rejects = 1
     /\ outcome.error \notin CallerErrors)
    => LET h1 == <<start, Pivot(start, end)>>
           h2 == <<Pivot(start, end), end>>
       IN  /\ outcome.kind = "returned"
           /\ \/ outcome.frame.isNone
              \/ outcome.frame.rows \in {<<h1>>, <<h2>>, <<h1, h2>>}

====
